---- MODULE Spec2Model ----
(***************************************************************************)
(* The asynchronous task lifecycle of the video generation service:        *)
(* VideoGenerationService (app/services/video_generator.py), the platform  *)
(* profiles (app/config.py) and the status route (app/api/routes.py).      *)
(*                                                                         *)
(* Threads.  Every route handler is an `async def` and every work unit is  *)
(* an asyncio task, so generate_video, the two halves of                   *)
(* _generate_video_async (before and after its single await) and           *)
(* get_task_status all run on the event-loop thread: each is one atomic    *)
(* step with respect to the others.  _generate_video_sync runs on a        *)
(* thread of the ThreadPoolExecutor and interleaves with all of them, one  *)
(* progress write at a time.  cleanup_old_tasks is a plain method with no  *)
(* await and no caller in the repository: called from the event-loop       *)
(* thread it is one atomic step (cleanup_old_tasks); called from any other *)
(* thread its loops interleave with everything else (cleanup_old_tasks_call*)
(* and the steps after it, in SweepSpec).                                  *)
(*                                                                         *)
(* Python values.  None is the empty tuple and a present value v is <<v>>, *)
(* so that None differs from every string, "None" and "" included.  A      *)
(* dict object is an entry of the heap `objs`; `tasks` maps a task id to   *)
(* the address of its dict, as self.tasks does.                            *)
(***************************************************************************)
EXTENDS Integers, Sequences, FiniteSets, TLC

\* ------------------------------------------------------------- bounds
\* Submissions in a run of Spec, and of PoolSpec (more than the pool has workers).
MaxTasks == 2
PoolTasks == 5
\* Submissions in a run of ReaderSpec.
ReaderTasks == 2
\* Submissions in a run of SweepSpec.
SweepTasks == 2
\* Submissions in a run of QuerySpec.
QueryTasks == 1
\* Accepted submissions in a run of ResolveSpec.
ResolveTasks == 1
\* The clock runs over 0..MaxTime hours.
MaxTime == 2
\* cleanup_old_tasks is called with max_age_hours in 0..MaxAge.
MaxAge == 1

\* ------------------------------------------------- program constants
max_workers == 4
default_width == 1024
default_height == 576
default_fps == 24
default_duration == 5
instagram_width == 1080
instagram_height == 1920
instagram_fps == 30
instagram_max_duration == 90
youtube_shorts_width == 1080
youtube_shorts_height == 1920
youtube_shorts_fps == 30
youtube_shorts_max_duration == 60
youtube_width == 1920
youtube_height == 1080
youtube_fps == 30

\* ------------------------------------------------------ Python values
None == <<>>
Some(v) == <<v>>
Val(o) == o[1]

\* `a or b`: b when a is falsy (None or 0), else a.
Or(a, b) == IF a = None \/ a = Some(0) THEN b ELSE a

\* bool(x) of an optional number: the truth value `x and ...` tests.
Truthy(a) == a # None /\ a # Some(0)

\* datetime.isoformat() and datetime.fromisoformat(): the text form of a
\* time (counted in hours) and its parse.
isoformat(t) == <<"T", t>>
fromisoformat(s) == s[2]

\* str(e) of an exception with the given args: "" when it carries none,
\* its message when it carries one.
ExcStr(args) == IF Len(args) = 0 THEN "" ELSE args[1]

\* os.path.join(output_dir, f"{task_id}.mp4") and os.path.basename.
OutputPath(task_id) == <<"outputs/", task_id, ".mp4">>
basename(path) == SubSeq(path, 2, 3)
DownloadUrl(path) == <<"/download/">> \o basename(path)

\* ----------------------------------------------------------- profiles
\* A lookup that compares the platform name as it was given.
lower_identity(p) == p

\* str.lower() on the platform names the model uses.
lower(p) ==
    CASE p = "Instagram" -> "instagram"
      [] p = "YouTube" -> "youtube"
      [] p = "YOUTUBE_SHORTS" -> "youtube_shorts"
      [] p = "Default" -> "default"
      [] OTHER -> p

get_video_settings(platform) ==
    LET p == lower(platform) IN
    IF p = "instagram" THEN
        [width |-> Some(instagram_width), height |-> Some(instagram_height),
         fps |-> Some(instagram_fps), max_duration |-> Some(instagram_max_duration)]
    ELSE IF p = "youtube_shorts" THEN
        [width |-> Some(youtube_shorts_width), height |-> Some(youtube_shorts_height),
         fps |-> Some(youtube_shorts_fps),
         max_duration |-> Some(youtube_shorts_max_duration)]
    ELSE IF p = "youtube" THEN
        [width |-> Some(youtube_width), height |-> Some(youtube_height),
         fps |-> Some(youtube_fps), max_duration |-> None]
    ELSE
        [width |-> Some(default_width), height |-> Some(default_height),
         fps |-> Some(default_fps), max_duration |-> None]

\* platform.lower() (config.py line 65) raises AttributeError when the
\* platform is None: the resolution of such a request fails.
ResolveRaises(request) == request.platform = None

\* The parameters generate_video hands to the work unit (lines 53-63).
ResolveArgs(request) ==
    LET platform_settings == get_video_settings(Val(request.platform))
        width == Or(request.width, platform_settings.width)
        height == Or(request.height, platform_settings.height)
        fps == Or(request.fps, platform_settings.fps)
        duration == Or(request.duration, Some(default_duration))
        max_d == platform_settings.max_duration
        clamped == IF Truthy(max_d) /\ Val(duration) > Val(max_d)
                   THEN max_d ELSE duration
    IN [width |-> Val(width), height |-> Val(height),
        fps |-> Val(fps), duration |-> Val(clamped)]

\* -------------------------------------------------------------- state
VARIABLES
    tasks,    \* self.tasks: task id -> address of the task's dict
    objs,     \* heap: address -> contents of a task's dict
    issued,   \* task ids issued so far (uuid4: every id is fresh)
    unit,     \* task id -> the work unit _generate_video_async and its render
    queue,    \* work queue of self.executor (FIFO)
    now,      \* datetime.utcnow(), in hours
    held,     \* what a caller of get_task_status got and still holds: the
              \* dict it was handed (ref) and what that dict read then (seen)
    submitted, \* the latest call of generate_video: the request it was given
              \* and whether it returned a task id or raised
    asked,    \* the task id of the latest call of get_task_status (0: none yet)
    sweep     \* a call of cleanup_old_tasks on a thread of its own: where it
              \* stands and its locals

vars == <<tasks, objs, issued, unit, queue, now, held, submitted, asked, sweep>>

Ids == 1 .. (IF MaxTasks > PoolTasks THEN MaxTasks ELSE PoolTasks)

\* Task ids a caller asks about: those the run can issue and one more.
AskedIds(bound) == 1 .. bound + 1

\* The record of task t: self.tasks[t].
Rec(t) == objs[tasks[t]]

\* Requests the clients of Spec submit: explicit fps and duration, small
\* enough for the frames of a render (two) to be walked one by one.
Requests ==
    [platform : {Some("default")}, width : {None}, height : {None},
     fps : {Some(2)}, duration : {Some(1)}]

\* Requests of PoolSpec: one frame each.
PoolRequests ==
    [platform : {Some("default")}, width : {None}, height : {None},
     fps : {Some(1)}, duration : {Some(1)}]

\* Platform names clients send: the four profiles, other spellings of
\* them, and a name that is no profile.
Platforms ==
    {"instagram", "Instagram", "youtube", "YouTube", "youtube_shorts",
     "YOUTUBE_SHORTS", "default", "Default", "tiktok"}

\* Durations clients ask for: none, zero, below, at and above the maxima.
Durations == {None, Some(0), Some(3), Some(60), Some(90), Some(120), Some(999)}

\* Requests of ResolveSpec: every platform name with every duration and no
\* other override; every platform name with one of width, height and fps
\* overridden, by zero or by a positive number; and a request whose
\* platform is None.
ResolveRequests ==
    [platform : {Some(p) : p \in Platforms}, width : {None}, height : {None},
     fps : {None}, duration : Durations]
    \cup [platform : {Some(p) : p \in Platforms}, width : {Some(0), Some(640)},
          height : {None}, fps : {None}, duration : {None}]
    \cup [platform : {Some(p) : p \in Platforms}, width : {None},
          height : {Some(0), Some(480)}, fps : {None}, duration : {None}]
    \cup [platform : {Some(p) : p \in Platforms}, width : {None},
          height : {None}, fps : {Some(0), Some(15)}, duration : {None}]
    \cup {[platform |-> None, width |-> None, height |-> None,
           fps |-> None, duration |-> None]}

\* Exceptions a render raises, by their args: one with no message, one with.
RenderErrors == {<<>>, <<"encoder failed">>}

\* The exception a render raises in PoolSpec.
PoolErrors == {<<"encoder failed">>}

\* A work unit holds: where it stands (pc), the parameters it was created
\* with (args), the frame index of its render (i), and what the render
\* returned or raised (result).  The locals are gone once it has finished.
NoUnit == [pc |-> "none", args |-> None, i |-> 0, result |-> None]
DoneUnit == [pc |-> "done", args |-> None, i |-> 0, result |-> None]

\* The thread that calls cleanup_old_tasks: idle between calls, and in a
\* call its arguments and locals: max_age_hours, current_time, the size the
\* dict iterator saw when it was created (used), the last key it yielded
\* (pos) and tasks_to_remove.
IdleSweep ==
    [pc |-> "idle", max_age_hours |-> 0, current_time |-> 0, used |-> 0,
     pos |-> 0, tasks_to_remove |-> <<>>]

\* The call has ended with an exception.
RaisedSweep == [IdleSweep EXCEPT !.pc = "raised"]

Init ==
    /\ tasks = <<>>
    /\ objs = <<>>
    /\ issued = 0
    /\ unit = [t \in Ids |-> NoUnit]
    /\ queue = <<>>
    /\ now = 0
    /\ held = None
    /\ submitted = None
    /\ asked = 0
    /\ sweep = IdleSweep

\* Addresses still referenced once self.tasks is tk and the caller holds h:
\* a dict lives while self.tasks or the caller refers to it.
Live(tk, h) == {tk[k] : k \in DOMAIN tk} \cup {h[j].ref : j \in DOMAIN h}

Collect(heap, tk, h) == [a \in (DOMAIN heap) \cap Live(tk, h) |-> heap[a]]

\* self.tasks[t][field] = value
SetFields(t, upd) ==
    objs' = [objs EXCEPT ![tasks[t]] =
                [f \in DOMAIN @ |-> IF f \in DOMAIN upd THEN upd[f] ELSE @[f]]]

\* ------------------------------------------------------------ actions
\* The dict generate_video stores for a new task (lines 66-74).  It has no
\* "completed_at" key yet; the field is None here, which is what
\* task_info.get("completed_at") reads until the key is written.
PendingRecord(request) ==
    [status |-> "pending",
     progress |-> 0,
     message |-> "Task created",
     created_at |-> isoformat(now),
     request |-> request,
     video_url |-> None,
     error |-> None,
     completed_at |-> None]

\* The work unit asyncio.create_task schedules (lines 77-81), holding the
\* resolved parameters.
ScheduledUnit(request) ==
    [pc |-> "scheduled", args |-> Some(ResolveArgs(request)),
     i |-> 0, result |-> None]

\* What a call of generate_video leaves to its caller: the task id it
\* returned, or the fact that it raised.
Returned(request, task_id) ==
    Some([request |-> request, raised |-> FALSE, task_id |-> Some(task_id)])
Raised(request) ==
    Some([request |-> request, raised |-> TRUE, task_id |-> None])

\* A submission that awaits the first half of the work unit before it
\* returns: the record is already processing when the id comes back.
generate_video_started(request, bound) ==
    /\ issued < bound
    /\ ~ResolveRaises(request)
    /\ LET task_id == issued + 1 IN
        /\ issued' = task_id
        /\ tasks' = tasks @@ (task_id :> task_id)
        /\ objs' = objs @@ (task_id :>
                [PendingRecord(request) EXCEPT
                    !.status = "processing", !.progress = 10,
                    !.message = "Generating video..."])
        /\ unit' = [unit EXCEPT ![task_id] = ScheduledUnit(request)]
        /\ submitted' = Returned(request, task_id)
    /\ UNCHANGED <<queue, now, held, asked, sweep>>

\* A submission that stores what it resolved instead of the request.
generate_video_stores_resolved(request, bound) ==
    /\ issued < bound
    /\ ~ResolveRaises(request)
    /\ LET task_id == issued + 1
           resolved == ResolveArgs(request) IN
        /\ issued' = task_id
        /\ tasks' = tasks @@ (task_id :> task_id)
        /\ objs' = objs @@ (task_id :>
                PendingRecord([platform |-> request.platform,
                               width |-> Some(resolved.width),
                               height |-> Some(resolved.height),
                               fps |-> Some(resolved.fps),
                               duration |-> Some(resolved.duration)]))
        /\ unit' = [unit EXCEPT ![task_id] = ScheduledUnit(request)]
        /\ submitted' = Returned(request, task_id)
    /\ UNCHANGED <<queue, now, held, asked, sweep>>

\* A submission that stores the record before it resolves the parameters:
\* when the resolution raises, the record is already in the store.
generate_video_store_first(request, bound) ==
    /\ issued < bound
    /\ LET task_id == issued + 1 IN
        /\ issued' = task_id
        /\ tasks' = tasks @@ (task_id :> task_id)
        /\ objs' = objs @@ (task_id :> PendingRecord(request))
        /\ IF ResolveRaises(request)
           THEN /\ submitted' = Raised(request)
                /\ UNCHANGED unit
           ELSE /\ submitted' = Returned(request, task_id)
                /\ unit' = [unit EXCEPT ![task_id] = ScheduledUnit(request)]
    /\ UNCHANGED <<queue, now, held, asked, sweep>>

\* generate_video (lines 40-83): a fresh id, the parameters resolved, the
\* pending record stored, and the work unit scheduled with
\* asyncio.create_task; nothing of the unit has run when the id is
\* returned.  When the resolution raises (lines 53-63), the exception leaves
\* generate_video before line 66: nothing was stored and nothing scheduled.
\* `bound` caps the accepted submissions of a run.
generate_video(request, bound) ==
    /\ IF ResolveRaises(request)
       THEN /\ submitted' = Raised(request)
            /\ UNCHANGED <<tasks, objs, issued, unit>>
       ELSE LET task_id == issued + 1 IN
            /\ issued < bound
            /\ issued' = task_id
            /\ tasks' = tasks @@ (task_id :> task_id)
            /\ objs' = objs @@ (task_id :> PendingRecord(request))
            /\ unit' = [unit EXCEPT ![task_id] = ScheduledUnit(request)]
            /\ submitted' = Returned(request, task_id)
    /\ UNCHANGED <<queue, now, held, asked, sweep>>

\* fps * duration (line 154): the frames of the render of task t.
num_frames(t) == Val(unit[t].args).fps * Val(unit[t].args).duration

\* The progress of a frame without the offset of 10.
FrameProgressNoOffset(i, n) == (i * 80) \div n

\* 10 + int((i / num_frames) * 80) (line 177).  The frame counts of the
\* model (1 and 2) divide exactly in floating point, so the truncated
\* float product is the integer quotient.
FrameProgress(i, n) == 10 + ((i * 80) \div n)

\* Tasks whose render occupies a worker thread of the pool.
Rendering == {t \in Ids : unit[t].pc = "rendering"}

\* asyncio.create_task (line 77) puts the new work unit at the end of the
\* event loop's ready queue, which runs in order: the work units start in
\* the order of their creation.
FirstScheduled(t) == \A u \in 1 .. t - 1 : unit[u].pc # "scheduled"

\* A work unit that forgets to mark the task as processing.
generate_video_async_begin_no_status(t) ==
    /\ unit[t].pc = "scheduled"
    /\ FirstScheduled(t)
    /\ SetFields(t, [message |-> "Generating video...", progress |-> 10])
    /\ queue' = Append(queue, t)
    /\ unit' = [unit EXCEPT ![t].pc = "queued"]
    /\ UNCHANGED <<tasks, issued, now, held, submitted, asked, sweep>>

\* _generate_video_async up to its await (lines 99-112): the record goes to
\* processing and the render is handed to the executor.
generate_video_async_begin(t) ==
    /\ unit[t].pc = "scheduled"
    /\ FirstScheduled(t)
    /\ SetFields(t, [status |-> "processing",
                     message |-> "Generating video...",
                     progress |-> 10])
    /\ queue' = Append(queue, t)
    /\ unit' = [unit EXCEPT ![t].pc = "queued"]
    /\ UNCHANGED <<tasks, issued, now, held, submitted, asked, sweep>>

\* An executor that starts a thread for every work item.
executor_worker_take_unbounded ==
    /\ queue # <<>>
    /\ unit' = [unit EXCEPT ![Head(queue)].pc = "rendering"]
    /\ queue' = Tail(queue)
    /\ UNCHANGED <<tasks, objs, issued, now, held, submitted, asked, sweep>>

\* An executor with one worker too many.
executor_worker_take_one_more ==
    /\ queue # <<>>
    /\ Cardinality(Rendering) <= max_workers
    /\ unit' = [unit EXCEPT ![Head(queue)].pc = "rendering"]
    /\ queue' = Tail(queue)
    /\ UNCHANGED <<tasks, objs, issued, now, held, submitted, asked, sweep>>

\* ThreadPoolExecutor(max_workers=4) (line 29): a free worker thread takes
\* the oldest work item and enters _generate_video_sync.
executor_worker_take ==
    /\ queue # <<>>
    /\ Cardinality(Rendering) < max_workers
    /\ unit' = [unit EXCEPT ![Head(queue)].pc = "rendering"]
    /\ queue' = Tail(queue)
    /\ UNCHANGED <<tasks, objs, issued, now, held, submitted, asked, sweep>>

\* A frame loop that reports its progress to the newest task of the store
\* instead of its own.
generate_video_sync_frame_newest(t) ==
    /\ unit[t].pc = "rendering"
    /\ unit[t].i < num_frames(t)
    /\ SetFields(issued, [progress |-> FrameProgress(unit[t].i, num_frames(t))])
    /\ unit' = [unit EXCEPT ![t].i = @ + 1]
    /\ UNCHANGED <<tasks, issued, queue, now, held, submitted, asked, sweep>>

\* One turn of the frame loop of _generate_video_sync (lines 160-178).
generate_video_sync_frame(t) ==
    /\ unit[t].pc = "rendering"
    /\ unit[t].i < num_frames(t)
    /\ SetFields(t, [progress |-> FrameProgress(unit[t].i, num_frames(t))])
    /\ unit' = [unit EXCEPT ![t].i = @ + 1]
    /\ UNCHANGED <<tasks, issued, queue, now, held, submitted, asked, sweep>>

\* _generate_video_sync writes the file and returns its path (lines 180-189).
generate_video_sync_return(t) ==
    /\ unit[t].pc = "rendering"
    /\ unit[t].i = num_frames(t)
    /\ unit' = [unit EXCEPT ![t].pc = "returned", ![t].i = 0,
                            ![t].result = Some(OutputPath(t))]
    /\ UNCHANGED <<tasks, objs, issued, queue, now, held, submitted, asked, sweep>>

\* _generate_video_sync raises (seeding, allocating a frame, encoding, ...):
\* at any point of the render, with any exception.
generate_video_sync_raise(t, e) ==
    /\ unit[t].pc = "rendering"
    /\ unit' = [unit EXCEPT ![t].pc = "raised", ![t].i = 0,
                            ![t].result = Some(e)]
    /\ UNCHANGED <<tasks, objs, issued, queue, now, held, submitted, asked, sweep>>

\* A completed branch that forgets the time of completion.
generate_video_async_completed_no_time(t) ==
    /\ unit[t].pc = "returned"
    /\ SetFields(t, [status |-> "completed",
                     message |-> "Video generated successfully",
                     progress |-> 100,
                     video_url |-> Some(DownloadUrl(Val(unit[t].result)))])
    /\ unit' = [unit EXCEPT ![t] = DoneUnit]
    /\ UNCHANGED <<tasks, issued, queue, now, held, submitted, asked, sweep>>

\* A completed branch that yields to the event loop after it has written
\* the status: the other fields are written in a later step.
generate_video_async_completed_yielding(t) ==
    /\ unit[t].pc = "returned"
    /\ IF Rec(t).status # "completed"
       THEN /\ SetFields(t, [status |-> "completed"])
            /\ UNCHANGED unit
       ELSE /\ SetFields(t, [message |-> "Video generated successfully",
                             progress |-> 100,
                             video_url |-> Some(DownloadUrl(Val(unit[t].result))),
                             completed_at |-> Some(isoformat(now))])
            /\ unit' = [unit EXCEPT ![t] = DoneUnit]
    /\ UNCHANGED <<tasks, issued, queue, now, held, submitted, asked, sweep>>

\* _generate_video_async after the await returned a path (lines 114-120).
generate_video_async_completed(t) ==
    /\ unit[t].pc = "returned"
    /\ SetFields(t, [status |-> "completed",
                     message |-> "Video generated successfully",
                     progress |-> 100,
                     video_url |-> Some(DownloadUrl(Val(unit[t].result))),
                     completed_at |-> Some(isoformat(now))])
    /\ unit' = [unit EXCEPT ![t] = DoneUnit]
    /\ UNCHANGED <<tasks, issued, queue, now, held, submitted, asked, sweep>>

\* An except branch that tries the render once more instead of giving up.
generate_video_async_retry(t) ==
    /\ unit[t].pc = "raised"
    /\ queue' = Append(queue, t)
    /\ unit' = [unit EXCEPT ![t].pc = "queued", ![t].result = None]
    /\ UNCHANGED <<tasks, objs, issued, now, held, submitted, asked, sweep>>

\* A work unit without the except branch: the exception ends the unit and
\* the record is left as it was.
generate_video_async_uncaught(t) ==
    /\ unit[t].pc = "raised"
    /\ unit' = [unit EXCEPT ![t] = DoneUnit]
    /\ UNCHANGED <<tasks, objs, issued, queue, now, held, submitted, asked, sweep>>

\* An except branch that also closes the progress bar.
generate_video_async_failed_full(t) ==
    /\ unit[t].pc = "raised"
    /\ SetFields(t, [status |-> "failed",
                     message |-> "Video generation failed",
                     progress |-> 100,
                     error |-> Some(ExcStr(Val(unit[t].result))),
                     completed_at |-> Some(isoformat(now))])
    /\ unit' = [unit EXCEPT ![t] = DoneUnit]
    /\ UNCHANGED <<tasks, issued, queue, now, held, submitted, asked, sweep>>

\* _generate_video_async's except branch (lines 122-127).
generate_video_async_failed(t) ==
    /\ unit[t].pc = "raised"
    /\ SetFields(t, [status |-> "failed",
                     message |-> "Video generation failed",
                     error |-> Some(ExcStr(Val(unit[t].result))),
                     completed_at |-> Some(isoformat(now))])
    /\ unit' = [unit EXCEPT ![t] = DoneUnit]
    /\ UNCHANGED <<tasks, issued, queue, now, held, submitted, asked, sweep>>

\* The work unit has ended with an exception that nothing caught.
CrashedUnit == [DoneUnit EXCEPT !.pc = "crashed"]

\* A work unit stands between the first write of its completed or failed
\* branch and the writes that follow: the event loop is inside that branch
\* and runs nothing else.
EventLoopBusy == \E t \in Ids : unit[t].pc \in {"completing", "failing"}

\* The calls, out of S, that the event loop can take up now: none while it
\* is inside such a branch.
OnEventLoop(S) == IF EventLoopBusy THEN {} ELSE S

\* Line 114, as another thread sees it: the status alone is written.
generate_video_async_completed_status(t) ==
    /\ unit[t].pc = "returned"
    /\ ~EventLoopBusy
    /\ SetFields(t, [status |-> "completed"])
    /\ unit' = [unit EXCEPT ![t].pc = "completing"]
    /\ UNCHANGED <<tasks, issued, queue, now, held, submitted, asked, sweep>>

\* Lines 115-118, as another thread sees them.  Each write looks the
\* record up in self.tasks: when the record has been deleted, the write
\* raises KeyError, the except branch is entered, and its own first write
\* (line 124) raises KeyError again, which leaves the work unit.  Whichever
\* of the writes finds the record gone, the store and the unit end the same.
generate_video_async_completed_rest(t) ==
    /\ unit[t].pc = "completing"
    /\ IF t \in DOMAIN tasks
       THEN /\ SetFields(t, [message |-> "Video generated successfully",
                             progress |-> 100,
                             video_url |-> Some(DownloadUrl(Val(unit[t].result))),
                             completed_at |-> Some(isoformat(now))])
            /\ unit' = [unit EXCEPT ![t] = DoneUnit]
       ELSE /\ unit' = [unit EXCEPT ![t] = CrashedUnit]
            /\ UNCHANGED objs
    /\ UNCHANGED <<tasks, issued, queue, now, held, submitted, asked, sweep>>

\* Line 124, as another thread sees it.
generate_video_async_failed_status(t) ==
    /\ unit[t].pc = "raised"
    /\ ~EventLoopBusy
    /\ SetFields(t, [status |-> "failed"])
    /\ unit' = [unit EXCEPT ![t].pc = "failing"]
    /\ UNCHANGED <<tasks, issued, queue, now, held, submitted, asked, sweep>>

\* Lines 125-127, as another thread sees them: a write to a deleted record
\* raises KeyError inside the except branch, which leaves the work unit.
generate_video_async_failed_rest(t) ==
    /\ unit[t].pc = "failing"
    /\ IF t \in DOMAIN tasks
       THEN /\ SetFields(t, [message |-> "Video generation failed",
                             error |-> Some(ExcStr(Val(unit[t].result))),
                             completed_at |-> Some(isoformat(now))])
            /\ unit' = [unit EXCEPT ![t] = DoneUnit]
       ELSE /\ unit' = [unit EXCEPT ![t] = CrashedUnit]
            /\ UNCHANGED objs
    /\ UNCHANGED <<tasks, issued, queue, now, held, submitted, asked, sweep>>

\* A selection by the time of completion instead of creation.
tasks_to_remove_by_completion(max_age_hours) ==
    {t \in DOMAIN tasks :
        /\ Rec(t).status \in {"completed", "failed"}
        /\ now - fromisoformat(Val(Rec(t).completed_at)) > max_age_hours}

\* A selection by age alone, without the test of the status.
tasks_to_remove_any_status(max_age_hours) ==
    {t \in DOMAIN tasks :
        now - fromisoformat(Rec(t).created_at) > max_age_hours}

\* The tasks cleanup_old_tasks selects (lines 225-231).
tasks_to_remove(max_age_hours) ==
    {t \in DOMAIN tasks :
        /\ Rec(t).status \in {"completed", "failed"}
        /\ now - fromisoformat(Rec(t).created_at) > max_age_hours}

\* cleanup_old_tasks (lines 220-235).
cleanup_old_tasks(max_age_hours) ==
    /\ UNCHANGED <<issued, unit, queue, now, held, submitted, asked, sweep>>
    /\ tasks' = [t \in DOMAIN tasks \ tasks_to_remove(max_age_hours) |-> tasks[t]]
    /\ objs' = Collect(objs, tasks', held)

\* cleanup_old_tasks called on a thread other than the event loop's: its
\* steps interleave with submissions, work units and renders.  The call
\* reads the clock and creates the iterator of self.tasks.items() (lines
\* 222-225); the iterator remembers the size of the dict.
cleanup_old_tasks_call(max_age_hours) ==
    /\ sweep.pc \in {"idle", "raised"}
    /\ sweep' = [pc |-> "iterating", max_age_hours |-> max_age_hours,
                 current_time |-> now, used |-> Cardinality(DOMAIN tasks),
                 pos |-> 0, tasks_to_remove |-> <<>>]
    /\ UNCHANGED <<tasks, objs, issued, unit, queue, now, held, submitted, asked>>

\* The keys the iterator has not yielded yet: a dict keeps its keys in the
\* order of insertion, which is the order of the task ids.
KeysAhead == {k \in DOMAIN tasks : k > sweep.pos}

\* One turn of the loop over self.tasks.items() (lines 225-231).  The
\* iterator raises RuntimeError (dictionary changed size during iteration)
\* when the dict no longer has the size it had when the loop began; at the
\* end of the dict the loop is left.
cleanup_old_tasks_next ==
    /\ sweep.pc = "iterating"
    /\ IF Cardinality(DOMAIN tasks) # sweep.used
       THEN sweep' = RaisedSweep
       ELSE IF KeysAhead = {}
       THEN sweep' = [sweep EXCEPT !.pc = "deleting"]
       ELSE LET task_id == CHOOSE k \in KeysAhead : \A j \in KeysAhead : k <= j
                task_info == Rec(task_id)
            IN sweep' = [sweep EXCEPT
                  !.pos = task_id,
                  !.tasks_to_remove =
                      IF /\ task_info.status \in {"completed", "failed"}
                         /\ sweep.current_time - fromisoformat(task_info.created_at)
                                > sweep.max_age_hours
                      THEN Append(@, task_id) ELSE @]
    /\ UNCHANGED <<tasks, objs, issued, unit, queue, now, held, submitted, asked>>

\* One turn of the loop of deletions (lines 233-234): del raises KeyError
\* when the key is gone; after the last deletion the call returns.
cleanup_old_tasks_del ==
    /\ sweep.pc = "deleting"
    /\ IF sweep.tasks_to_remove = <<>>
       THEN /\ sweep' = IdleSweep
            /\ UNCHANGED <<tasks, objs>>
       ELSE IF Head(sweep.tasks_to_remove) \notin DOMAIN tasks
       THEN /\ sweep' = RaisedSweep
            /\ UNCHANGED <<tasks, objs>>
       ELSE /\ tasks' = [t \in DOMAIN tasks \ {Head(sweep.tasks_to_remove)} |-> tasks[t]]
            /\ objs' = Collect(objs, tasks', held)
            /\ sweep' = [sweep EXCEPT !.tasks_to_remove = Tail(@)]
    /\ UNCHANGED <<issued, unit, queue, now, held, submitted, asked>>

\* VideoGenerationService.get_task_status (lines 216-218): self.tasks.get,
\* the task's own dict or None; the caller keeps what it got.
TasksGet(t) == IF t \in DOMAIN tasks THEN Some(tasks[t]) ELSE None

\* A get_task_status that returns dict(self.tasks[task_id]): a copy, at an
\* address of its own.
get_task_status_copy(t) ==
    /\ held' = IF TasksGet(t) = None THEN None
               ELSE Some([ref |-> 0 - t, seen |-> objs[Val(TasksGet(t))]])
    /\ objs' = Collect(IF TasksGet(t) = None THEN objs
                       ELSE objs @@ ((0 - t) :> objs[Val(TasksGet(t))]),
                       tasks, held')
    /\ asked' = t
    /\ UNCHANGED <<tasks, issued, unit, queue, now, submitted, sweep>>

\* A get_task_status with a default: self.tasks.get(task_id, {}), an empty
\* dict of its own for an id the store does not hold.
get_task_status_default(t) ==
    /\ held' = IF TasksGet(t) = None
               THEN Some([ref |-> 0 - t, seen |-> <<>>])
               ELSE Some([ref |-> Val(TasksGet(t)), seen |-> objs[Val(TasksGet(t))]])
    /\ objs' = Collect(IF TasksGet(t) = None THEN objs @@ ((0 - t) :> <<>>)
                       ELSE objs, tasks, held')
    /\ asked' = t
    /\ UNCHANGED <<tasks, issued, unit, queue, now, submitted, sweep>>

get_task_status(t) ==
    /\ held' = IF TasksGet(t) = None THEN None
               ELSE Some([ref |-> Val(TasksGet(t)), seen |-> objs[Val(TasksGet(t))]])
    /\ objs' = Collect(objs, tasks, held')
    /\ asked' = t
    /\ UNCHANGED <<tasks, issued, unit, queue, now, submitted, sweep>>

\* The route GET /status/{task_id} (routes.py lines 68-85), in the same
\* event-loop step as its call of get_task_status: 404 when it got None,
\* else a TaskStatusResponse of the fields it read from the dict.
TaskStatusResponse ==
    IF held = None
    THEN [status_code |-> 404, detail |-> "Task not found"]
    ELSE [status_code |-> 200,
          task_id |-> asked,
          status |-> Val(held).seen.status,
          progress |-> Val(held).seen.progress,
          message |-> Val(held).seen.message,
          video_url |-> Val(held).seen.video_url,
          error |-> Val(held).seen.error,
          created_at |-> Val(held).seen.created_at,
          completed_at |-> Val(held).seen.completed_at]

\* The clock advances.
Tick ==
    /\ now < MaxTime
    /\ now' = now + 1
    /\ UNCHANGED <<tasks, objs, issued, unit, queue, held, submitted, asked, sweep>>

\* The steps of the threads of the pool: a worker takes a render, and the
\* renders run.
WorkerNext(errors) ==
    \/ executor_worker_take
    \/ \E t \in Ids : generate_video_sync_frame(t)
    \/ \E t \in Ids : generate_video_sync_return(t)
    \/ \E t \in Ids, e \in errors : generate_video_sync_raise(t, e)

\* The steps of a work unit and of its render, for every task.
UnitNext(errors) ==
    \/ \E t \in Ids : generate_video_async_begin(t)
    \/ WorkerNext(errors)
    \/ \E t \in Ids : generate_video_async_completed(t)
    \/ \E t \in Ids : generate_video_async_failed(t)

\* Clients submit, work units and renders run, time passes and the store
\* is swept.
Next ==
    \/ \E request \in Requests : generate_video(request, MaxTasks)
    \/ UnitNext(RenderErrors)
    \/ \E h \in 0 .. MaxAge : cleanup_old_tasks(h)
    \/ Tick

Spec == Init /\ [][Next]_vars

\* A caller asks for the status of a task, known or not, and keeps what it
\* got while the work units go on.
ReaderNext ==
    \/ \E request \in Requests : generate_video(request, ReaderTasks)
    \/ UnitNext(RenderErrors)
    \/ \E t \in AskedIds(ReaderTasks) : get_task_status(t)

ReaderSpec == Init /\ [][ReaderNext]_vars

\* A caller asks for the status of a task while the store is swept: of a
\* task in the store, of one that was purged, of one never submitted.
QueryNext ==
    \/ \E request \in Requests : generate_video(request, QueryTasks)
    \/ UnitNext(RenderErrors)
    \/ \E h \in 0 .. MaxAge : cleanup_old_tasks(h)
    \/ Tick
    \/ \E t \in AskedIds(QueryTasks) : get_task_status(t)

QuerySpec == Init /\ [][QueryNext]_vars

\* The store is swept from a thread of its own, and from the event loop,
\* while clients submit and work units and renders run.  Beside a sweeping
\* thread the last branch of a work unit is no longer one step: its first
\* write, of the status, and the writes after it are taken apart.  What
\* runs on the event loop waits while a work unit is inside that branch.
SweepNext ==
    \/ \E request \in OnEventLoop(Requests) : generate_video(request, SweepTasks)
    \/ \E t \in OnEventLoop(Ids) : generate_video_async_begin(t)
    \/ WorkerNext(RenderErrors)
    \/ \E t \in Ids : generate_video_async_completed_status(t)
    \/ \E t \in Ids : generate_video_async_completed_rest(t)
    \/ \E t \in Ids : generate_video_async_failed_status(t)
    \/ \E t \in Ids : generate_video_async_failed_rest(t)
    \/ Tick
    \/ \E h \in OnEventLoop(0 .. MaxAge) : cleanup_old_tasks(h)
    \/ \E h \in 0 .. MaxAge : cleanup_old_tasks_call(h)
    \/ cleanup_old_tasks_next
    \/ cleanup_old_tasks_del

SweepSpec == Init /\ [][SweepNext]_vars

\* A burst of submissions larger than the pool.
PoolNext ==
    \/ \E request \in PoolRequests : generate_video(request, PoolTasks)
    \/ UnitNext(PoolErrors)

\* Scheduling: while some work unit or render can take a step, one of them
\* does: the event loop runs its ready work units, a free worker takes the
\* next work item, and a render that has started returns or raises.
PoolFairness == WF_vars(UnitNext(PoolErrors))

PoolSpec == Init /\ [][PoolNext]_vars /\ PoolFairness

\* Clients submit requests over every profile, with and without
\* overrides; the work units start their renders, which are cut short by
\* an exception.
ResolveNext ==
    \/ \E request \in ResolveRequests : generate_video(request, ResolveTasks)
    \/ \E t \in Ids : generate_video_async_begin(t)
    \/ executor_worker_take
    \/ \E t \in Ids, e \in PoolErrors : generate_video_sync_raise(t, e)
    \/ \E t \in Ids : generate_video_async_failed(t)

ResolveSpec == Init /\ [][ResolveNext]_vars

\* ------------------------------------------------------------- claims
Terminal == {"completed", "failed"}

\* Tasks in the store before and after a step.
Kept == (DOMAIN tasks) \cap (DOMAIN tasks')

\* The status changes the state machine allows.
StatusSteps ==
    {<<"pending", "processing">>, <<"processing", "completed">>,
     <<"processing", "failed">>}

\* C1: the status of a task changes only along pending -> processing ->
\* completed or pending -> processing -> failed; completed and failed are
\* never left, and no task goes from pending straight to a terminal state.
C1_StatusStateMachine ==
    [][\A t \in Kept :
          Rec(t)'.status # Rec(t).status
              => <<Rec(t).status, Rec(t)'.status>> \in StatusSteps]_vars

\* C1 witness: one task has ended completed and another failed.
C1_Witness ==
    \E t, u \in DOMAIN tasks :
        Rec(t).status = "completed" /\ Rec(u).status = "failed"

\* C2: under fair scheduling, and with every render returning or raising,
\* every submitted task reaches completed or failed, also when the render
\* raises and when more tasks are submitted than the pool has workers:
\* whatever has been submitted so far, a moment comes when all of it is
\* terminal.  On the way a status moves only by the steps of the state
\* machine, so a task passes through pending, processing and its terminal
\* state once each.
C2_EveryTaskTerminates ==
    /\ []<>(\A t \in 1 .. issued :
                t \in DOMAIN tasks /\ Rec(t).status \in Terminal)
    /\ [][\A t \in Kept :
             \/ Rec(t)'.status = Rec(t).status
             \/ <<Rec(t).status, Rec(t)'.status>> \in StatusSteps]_vars

\* C2 witness: more tasks than workers were submitted, all of them have
\* reached a terminal state, and at least one because its render raised.
C2_Witness ==
    /\ issued > max_workers
    /\ \A t \in 1 .. issued :
          t \in DOMAIN tasks /\ Rec(t).status \in Terminal /\ unit[t].pc = "done"
    /\ \E t \in 1 .. issued : Rec(t).status = "failed"
    /\ \E t \in 1 .. issued : Rec(t).status = "completed"

\* C3: from the moment generate_video returns the id until the work unit
\* runs its first step, the task reads status pending, progress 0, no
\* video_url and no error; and generate_video itself only schedules the
\* work unit: it hands nothing to the executor and starts no render.
C3_PendingUntilUnitRuns ==
    /\ [](\A t \in 1 .. issued :
            unit[t].pc = "scheduled"
                => /\ t \in DOMAIN tasks
                   /\ Rec(t).status = "pending"
                   /\ Rec(t).progress = 0
                   /\ Rec(t).video_url = None
                   /\ Rec(t).error = None)
    /\ [][issued' # issued
             => /\ unit'[issued'].pc = "scheduled"
                /\ issued' \in DOMAIN tasks'
                /\ objs'[tasks'[issued']].status = "pending"
                /\ objs'[tasks'[issued']].progress = 0
                /\ queue' = queue
                /\ Rendering' = Rendering]_vars

\* C3 witness: a task has been submitted while another one is rendering,
\* and its own work unit has not run yet.
C3_Witness ==
    \E t, u \in DOMAIN tasks :
        /\ unit[t].pc = "scheduled"
        /\ Rec(t).status = "pending"
        /\ unit[u].pc = "rendering"

\* C4: in every state and for every task, video_url is set only when the
\* status is completed, error only when it is failed, a terminal task has
\* exactly one of the two set, and progress is 100 exactly when the
\* status is completed.
C4_RecordInvariant ==
    \A t \in DOMAIN tasks :
        /\ Rec(t).video_url # None => Rec(t).status = "completed"
        /\ Rec(t).error # None => Rec(t).status = "failed"
        /\ Rec(t).status \in Terminal
              => (Rec(t).video_url # None) # (Rec(t).error # None)
        /\ Rec(t).progress = 100 <=> Rec(t).status = "completed"

\* C4 witness: a completed task with its video_url beside a failed task
\* with its error.
C4_Witness ==
    \E t, u \in DOMAIN tasks :
        /\ Rec(t).status = "completed" /\ Rec(t).video_url # None
        /\ Rec(u).status = "failed" /\ Rec(u).error # None

\* C5: the progress of a task never decreases from one state to the next,
\* stays within 0..100, and no longer changes once the task is completed
\* or failed.
C5_ProgressMonotone ==
    [][\A t \in Kept :
          /\ Rec(t)'.progress >= Rec(t).progress
          /\ Rec(t)'.progress \in 0 .. 100
          /\ Rec(t).status \in Terminal
                => Rec(t)'.progress = Rec(t).progress]_vars

\* C5 witness: a render reported progress beyond the first frame and the
\* task then failed, keeping that progress.
C5_Witness ==
    \E t \in DOMAIN tasks :
        /\ Rec(t).status = "failed"
        /\ Rec(t).progress > 10

\* Hours since the task was created, and since it reached its terminal state.
CreatedAge(t) == now - fromisoformat(Rec(t).created_at)
CompletedAge(t) == now - fromisoformat(Val(Rec(t).completed_at))

\* C6, as claimed: cleanup_old_tasks(max_age_hours) removes a terminal task
\* exactly when its completed_at is more than max_age_hours old; a terminal
\* task completed more recently stays, unchanged, whatever its created_at.
C6_RemovesByCompletedAt ==
    [][\A h \in 0 .. MaxAge :
          cleanup_old_tasks(h)
              => \A t \in DOMAIN tasks :
                    Rec(t).status \in Terminal
                        => IF CompletedAge(t) > h
                           THEN t \notin DOMAIN tasks'
                           ELSE t \in DOMAIN tasks' /\ Rec(t)' = Rec(t)]_vars

\* C6, amended: cleanup_old_tasks(max_age_hours) removes a terminal task
\* exactly when its created_at is more than max_age_hours old; a terminal
\* task created more recently stays, unchanged, whatever its completed_at.
C6_RemovesByCreatedAt ==
    [][\A h \in 0 .. MaxAge :
          cleanup_old_tasks(h)
              => \A t \in DOMAIN tasks :
                    Rec(t).status \in Terminal
                        => IF CreatedAge(t) > h
                           THEN t \notin DOMAIN tasks'
                           ELSE t \in DOMAIN tasks' /\ Rec(t)' = Rec(t)]_vars

\* C6 witness: a sweep has removed a task and has kept a terminal task
\* whose completed_at is later than its created_at.
C6_Witness ==
    /\ \E t \in 1 .. issued : t \notin DOMAIN tasks
    /\ \E u \in DOMAIN tasks :
          /\ Rec(u).status \in Terminal
          /\ CompletedAge(u) < CreatedAge(u)

\* C7: cleanup_old_tasks never removes or changes a task that is pending or
\* processing, whatever its age and whatever max_age_hours it is given; and
\* a record leaves the store only in a step of cleanup_old_tasks, and only
\* from a terminal state.
C7_SweepSparesLiveTasks ==
    [][\A t \in DOMAIN tasks :
          /\ Rec(t).status \notin Terminal
                => /\ t \in DOMAIN tasks'
                   /\ \/ Rec(t)' = Rec(t)
                      \/ ~(\E h \in 0 .. MaxAge : cleanup_old_tasks(h))
          /\ t \notin DOMAIN tasks'
                => /\ Rec(t).status \in Terminal
                   /\ \E h \in 0 .. MaxAge : cleanup_old_tasks(h)]_vars

\* C7 witness: a sweep has removed a task, and a task older than every
\* max_age_hours of the model is still in the store, not yet terminal.
C7_Witness ==
    /\ \E t \in 1 .. issued : t \notin DOMAIN tasks
    /\ \E u \in DOMAIN tasks :
          /\ Rec(u).status \notin Terminal
          /\ CreatedAge(u) > MaxAge

\* Tasks whose status reads processing.
Processing == {t \in DOMAIN tasks : Rec(t).status = "processing"}

\* C8, as claimed: a task reads processing only while its render executes
\* on a worker, so that a task submitted while all workers are busy stays
\* pending and at most max_workers tasks read processing.
C8_ProcessingOnlyOnWorker ==
    /\ \A t \in Processing : unit[t].pc = "rendering"
    /\ Cardinality(Processing) <= max_workers

\* C8, amended: a task reads pending exactly until its work unit starts on
\* the event loop and processing from then on, also while its render waits
\* in the executor's queue for a free worker; at most max_workers renders
\* execute at a time, and a render waits only while all workers are busy
\* or until a worker takes it.
C8_RenderWaitsForWorker ==
    /\ Cardinality(Rendering) <= max_workers
    /\ \A t \in DOMAIN tasks :
          Rec(t).status = "pending" <=> unit[t].pc = "scheduled"
    /\ \A t \in DOMAIN tasks :
          unit[t].pc \in {"queued", "rendering"} => Rec(t).status = "processing"
    /\ \A t \in DOMAIN tasks :
          unit[t].pc = "queued" <=> \E k \in DOMAIN queue : queue[k] = t

\* C8 witness: all workers render, one more render waits in the queue, and
\* more tasks read processing than the pool has workers.
C8_Witness ==
    /\ Cardinality(Rendering) = max_workers
    /\ queue # <<>>
    /\ Cardinality(Processing) > max_workers

\* C9: a task whose render raised ends failed with a non-empty error and no
\* video_url, and the step that records the failure leaves every other
\* task's record and work unit as they were.
C9_RenderFailure ==
    /\ [](\A t \in DOMAIN tasks :
            Rec(t).status = "failed"
                => /\ Rec(t).error # None
                   /\ Val(Rec(t).error) # ""
                   /\ Rec(t).video_url = None)
    /\ [][\A t \in Ids :
             generate_video_async_failed(t)
                 => \A u \in DOMAIN tasks \ {t} :
                       /\ u \in DOMAIN tasks'
                       /\ Rec(u)' = Rec(u)
                       /\ unit'[u] = unit[u]]_vars

\* C10, as claimed: what get_task_status returned is a snapshot; it still
\* reads as it did when it was obtained, whatever was written to the
\* task's record since.
C10_ReturnsSnapshot ==
    held # None => objs[Val(held).ref] = Val(held).seen

\* C10, amended: get_task_status returns the task's own dict, the one
\* self.tasks holds, and not a copy: what the caller holds is at every
\* moment the stored record of that task, later writes included.
C10_ReturnsStoredDict ==
    held # None
        => \E t \in DOMAIN tasks :
              /\ tasks[t] = Val(held).ref
              /\ objs[Val(held).ref] = Rec(t)

\* C10 witness: the caller obtained the record while the task was pending
\* and, holding the same value, now reads completed and a video_url in it.
C10_Witness ==
    /\ held # None
    /\ Val(held).seen.status = "pending"
    /\ objs[Val(held).ref].status = "completed"
    /\ objs[Val(held).ref].video_url # None

\* Tasks whose work unit or render holds its parameters, and for such a
\* task the request it was submitted with, its profile and the parameters
\* handed to its render.
WithArgs == {t \in DOMAIN tasks : unit[t].args # None}
Requested(t) == Rec(t).request
ProfileOf(t) == get_video_settings(Val(Requested(t).platform))
Effective(t) == Val(unit[t].args)

\* C11: the duration handed to the render never exceeds the maximum of the
\* profile when the profile has one; a requested duration above the maximum
\* is handed over as exactly the maximum, and a requested duration at or
\* below the maximum, or any requested duration on a profile without a
\* maximum, is handed over unchanged.
C11_DurationClamped ==
    \A t \in WithArgs :
        /\ ProfileOf(t).max_duration # None
              => Effective(t).duration <= Val(ProfileOf(t).max_duration)
        /\ Requested(t).duration # None
              => Effective(t).duration =
                    IF /\ ProfileOf(t).max_duration # None
                       /\ Val(Requested(t).duration) > Val(ProfileOf(t).max_duration)
                    THEN Val(ProfileOf(t).max_duration)
                    ELSE Val(Requested(t).duration)

\* The default of each parameter: the profile's width, height and fps, and
\* the default duration.
DefaultOf(t) ==
    [width |-> Val(ProfileOf(t).width), height |-> Val(ProfileOf(t).height),
     fps |-> Val(ProfileOf(t).fps), duration |-> default_duration]

\* C12: for each of width, height, fps and duration, the value handed to
\* the render is the override of the request whenever the override is not
\* None, zero included, and the default only when the override is None
\* (the duration in both cases up to the clamp to the profile's maximum).
C12_OverrideWhenNotNone ==
    \A t \in WithArgs :
        /\ \A f \in {"width", "height", "fps"} :
              Effective(t)[f] = IF Requested(t)[f] # None
                                THEN Val(Requested(t)[f]) ELSE DefaultOf(t)[f]
        /\ LET d == IF Requested(t).duration # None
                    THEN Val(Requested(t).duration) ELSE DefaultOf(t).duration
               m == ProfileOf(t).max_duration
           IN Effective(t).duration = IF m # None /\ d > Val(m) THEN Val(m) ELSE d

\* The profile names, and for each the spellings of it that clients send.
ProfileNames == {"instagram", "youtube", "youtube_shorts", "default"}
Spellings ==
    [instagram |-> {"instagram", "Instagram"},
     youtube |-> {"youtube", "YouTube"},
     youtube_shorts |-> {"youtube_shorts", "YOUTUBE_SHORTS"},
     default |-> {"default", "Default"}]

\* The profile a platform name stands for: the one it spells, whatever the
\* case of its letters, and "default" when it spells none.
NamedProfile(p) ==
    IF \E n \in ProfileNames : p \in Spellings[n]
    THEN CHOOSE n \in ProfileNames : p \in Spellings[n]
    ELSE "default"

\* C13: the profile is looked up without regard to case among instagram,
\* youtube, youtube_shorts and default, and a platform name outside that set
\* gives, without an error, exactly the settings of "default": a request
\* with a platform name is accepted, and the width, height and fps handed
\* to its render, where the request does not override them, and the
\* maximum its duration is clamped to, are those of the profile the name
\* spells.
C13_ProfileLookup ==
    /\ submitted # None /\ Val(submitted).request.platform # None
          => /\ ~Val(submitted).raised
             /\ Val(Val(submitted).task_id) \in DOMAIN tasks
    /\ \A t \in WithArgs :
          LET named == get_video_settings(NamedProfile(Val(Requested(t).platform)))
          IN /\ \A f \in {"width", "height", "fps"} :
                    Requested(t)[f] = None => Effective(t)[f] = Val(named[f])
             /\ named.max_duration # None
                    => Effective(t).duration <= Val(named.max_duration)
             /\ named.max_duration = None /\ Truthy(Requested(t).duration)
                    => Effective(t).duration = Val(Requested(t).duration)

\* C13 witness: the render of a request for "YOUTUBE_SHORTS" asking for 120
\* seconds runs with the width and height of youtube_shorts and 60 seconds.
C13_Witness ==
    \E t \in WithArgs :
        /\ unit[t].pc = "rendering"
        /\ Requested(t).platform = Some("YOUTUBE_SHORTS")
        /\ Requested(t).duration = Some(120)
        /\ Effective(t).width = youtube_shorts_width
        /\ Effective(t).height = youtube_shorts_height
        /\ Effective(t).duration = youtube_shorts_max_duration

\* C14, as claimed: the width, height, fps and duration stored in a task's
\* record are the resolved ones, equal to the values handed to the render
\* (defaults filled in, duration clamped), and never change afterwards.
C14_StoredResolved ==
    /\ [](\A t \in WithArgs :
            \A f \in {"width", "height", "fps", "duration"} :
                Requested(t)[f] = Some(Effective(t)[f]))
    /\ [][\A t \in Kept : Rec(t)'.request = Rec(t).request]_vars

\* C14, amended: the parameters stored in a task's record are the request
\* as it was submitted (None where the caller gave no override, the
\* duration as asked for, not clamped), and they never change afterwards;
\* the resolved values are held by the work unit alone.
C14_StoredAsSubmitted ==
    [][/\ issued' # issued
            => /\ issued' \in DOMAIN tasks'
               /\ objs'[tasks'[issued']].request = Val(submitted').request
       /\ \A t \in Kept : Rec(t)'.request = Rec(t).request]_vars

\* C14 witness: a task asked for 999 seconds on instagram without a width;
\* its render runs with 90 seconds and the profile's width while the record,
\* already written to by the work unit, still holds 999 and no width.
C14_Witness ==
    \E t \in WithArgs :
        /\ unit[t].pc = "rendering"
        /\ Rec(t).status = "processing"
        /\ Requested(t).platform = Some("instagram")
        /\ Requested(t).duration = Some(999)
        /\ Requested(t).width = None
        /\ Effective(t).duration = instagram_max_duration
        /\ Effective(t).width = instagram_width

\* C15: when the resolution of the parameters fails during a submission,
\* the submission fails at once and leaves the store as it was: no record
\* is created, no id is given out, and no work unit is scheduled or handed
\* to the executor.
C15_FailedSubmissionStoresNothing ==
    [][submitted' # submitted /\ Val(submitted').raised
          => /\ Val(submitted').task_id = None
             /\ tasks' = tasks
             /\ objs' = objs
             /\ issued' = issued
             /\ unit' = unit
             /\ queue' = queue]_vars

\* C15 witness: a submission has just failed in its resolution while the
\* store holds one task, whose render is running; no second record and no
\* second work unit exist.
C15_Witness ==
    /\ submitted # None
    /\ Val(submitted).raised
    /\ DOMAIN tasks = {1}
    /\ unit[1].pc = "rendering"
    /\ \A t \in Ids \ {1} : unit[t] = NoUnit

\* C16: get_task_status gives None (and the route 404) for a task id that
\* was never issued and for one whose record has been purged; for an id
\* that generate_video returned and that has not been purged, it gives the
\* record of that task.
C16_StatusQuery ==
    [][\A t \in AskedIds(QueryTasks) :
          get_task_status(t)
              => IF t \in 1 .. issued /\ t \in DOMAIN tasks
                 THEN /\ held' # None
                      /\ Val(held').ref = tasks[t]
                      /\ Val(held').seen = Rec(t)
                 ELSE held' = None]_vars

\* C16 witness: task 1 was submitted, its record has been purged, and the
\* caller who asked for task 1 last got None.
C16_Witness ==
    /\ issued = 1
    /\ 1 \notin DOMAIN tasks
    /\ asked = 1
    /\ held = None

\* A step of the thread that sweeps the store.
SweepStep == sweep' # sweep

\* C17: cleanup_old_tasks is idempotent and safe beside submissions and
\* writing workers.  A sweep leaves nothing that a second sweep with the
\* same threshold at the same time would remove; no interleaving makes a
\* sweep end with an exception; a record leaves the store only when it is
\* terminal and older than a threshold; and a step of a sweep leaves the
\* records it keeps as they were.
C17_SweepSafe ==
    /\ [](sweep.pc # "raised")
    /\ [][\A h \in 0 .. MaxAge :
             cleanup_old_tasks(h) => tasks_to_remove(h)' = {}]_vars
    /\ [][\A t \in DOMAIN tasks :
             /\ t \notin DOMAIN tasks'
                   => /\ Rec(t).status \in Terminal
                      /\ CreatedAge(t) > 0
             /\ t \in DOMAIN tasks' /\ SweepStep => Rec(t)' = Rec(t)]_vars

\* C18: at most max_workers renders execute at the same time, however many
\* tasks were submitted; a render starts only when a worker is free, the
\* oldest waiting one first, and a dispatched task whose render waits has
\* had nothing of its render run.
C18_AtMostKRenders ==
    /\ [](Cardinality(Rendering) <= max_workers)
    /\ [](\A t \in Ids : unit[t].pc = "queued"
                => unit[t].i = 0 /\ Rec(t).progress = 10)
    /\ [][\A t \in Ids :
             unit[t].pc # "rendering" /\ unit'[t].pc = "rendering"
                 => /\ Cardinality(Rendering) < max_workers
                    /\ unit[t].pc = "queued"
                    /\ queue # <<>>
                    /\ Head(queue) = t]_vars

\* C18 witness: five tasks were submitted to the pool of four; the render
\* of the fifth waited and, a worker having finished, now runs beside
\* three others.
C18_Witness ==
    /\ issued = max_workers + 1
    /\ unit[issued].pc = "rendering"
    /\ Cardinality(Rendering) = max_workers
    /\ \E t \in 1 .. max_workers : unit[t].pc \in {"returned", "raised", "done"}

\* Work units whose render has been started, and those whose render is over.
RenderStarted == {t \in Ids : unit[t].pc \in {"rendering", "returned", "raised", "done"}}
RenderOver == {t \in Ids : unit[t].pc \in {"returned", "raised", "done"}}

\* C19: the render is invoked at most once for a task.  A task whose
\* render has been started is never handed to the executor again, and one
\* whose render is over never renders again; after a render raised, the
\* next step of the work unit records failed and ends the unit, and a
\* failed task's work unit stays ended.
C19_RenderAtMostOnce ==
    [][\A t \in Ids :
          /\ t \in RenderStarted
                => /\ unit'[t].pc \notin {"scheduled", "queued"}
                   /\ \A k \in DOMAIN queue' : queue'[k] # t
          /\ t \in RenderOver => unit'[t].pc # "rendering"
          /\ unit[t].pc = "raised" /\ unit'[t] # unit[t]
                => unit'[t].pc = "done" /\ Rec(t)'.status = "failed"
          /\ t \in Kept /\ Rec(t).status = "failed" => unit'[t].pc = "done"]_vars

\* C19 witness: a task has failed after its render raised, its work unit
\* is over and nothing of it waits in the executor, while the other task
\* is still rendering.
C19_Witness ==
    \E t, u \in DOMAIN tasks :
        /\ Rec(t).status = "failed"
        /\ unit[t].pc = "done"
        /\ \A k \in DOMAIN queue : queue[k] # t
        /\ unit[u].pc = "rendering"

\* C20: completed_at is absent while a task is pending or processing, is
\* set in the step in which the task becomes completed or failed, to the
\* time of that step, does not change afterwards, and is never earlier
\* than created_at.
C20_CompletedAt ==
    /\ [](\A t \in DOMAIN tasks :
            IF Rec(t).status \in Terminal
            THEN /\ Rec(t).completed_at # None
                 /\ fromisoformat(Val(Rec(t).completed_at))
                        >= fromisoformat(Rec(t).created_at)
            ELSE Rec(t).completed_at = None)
    /\ [][\A t \in Kept :
             /\ Rec(t).status \in Terminal
                   => Rec(t)'.completed_at = Rec(t).completed_at
             /\ Rec(t).status \notin Terminal /\ Rec(t)'.status \in Terminal
                   => Rec(t)'.completed_at = Some(isoformat(now))]_vars

\* C20 witness: a task completed an hour after it was created, another
\* hour has passed since, and a second task is still without completed_at.
C20_Witness ==
    \E t, u \in DOMAIN tasks :
        /\ Rec(t).status = "completed"
        /\ Rec(t).created_at = isoformat(0)
        /\ Rec(t).completed_at = Some(isoformat(1))
        /\ now = 2
        /\ Rec(u).status = "processing"
        /\ Rec(u).completed_at = None

\* C21: the record of a task is written only by the work unit and the
\* render of that task.  A step that changes the record of a task in the
\* store is a step of that task's own work unit or render, it leaves the
\* record of every other task as it was, and it changes neither created_at
\* nor the stored request.
C21_OwnRecordOnly ==
    [][\A t \in Kept :
          Rec(t)' # Rec(t)
              => /\ unit'[t] # unit[t]
                 /\ \A u \in Ids \ {t} : unit'[u] = unit[u]
                 /\ \A u \in Kept \ {t} : Rec(u)' = Rec(u)
                 /\ Rec(t)'.created_at = Rec(t).created_at
                 /\ Rec(t)'.request = Rec(t).request]_vars

\* C21 witness: the render of the second task has reported progress of
\* its frames while the first task, submitted an hour earlier, reads as
\* its own work unit left it: failed, with the error of its own render.
C21_Witness ==
    /\ DOMAIN tasks = {1, 2}
    /\ Rec(1).status = "failed" /\ Rec(1).created_at = isoformat(0)
    /\ Rec(2).created_at = isoformat(1)
    /\ unit[2].pc = "rendering" /\ unit[2].i = 2 /\ Rec(2).progress = 50

\* C22: every response of GET /status/{task_id} shows one state of the
\* record, the one of the moment of the request.  No response reads
\* completed with progress below 100 or without video_url, failed without
\* error, or a terminal status without completed_at, whatever the work
\* units and the renders do around the request.
C22_ConsistentResponse ==
    /\ [](asked # 0 /\ TaskStatusResponse.status_code = 200
            => LET r == TaskStatusResponse
               IN /\ r.status = "completed"
                        => r.progress = 100 /\ r.video_url # None
                  /\ r.status = "failed" => r.error # None
                  /\ r.status \in Terminal => r.completed_at # None)
    /\ [][\A t \in AskedIds(ReaderTasks) :
             get_task_status(t) /\ t \in DOMAIN tasks
                 => /\ TaskStatusResponse'.status_code = 200
                    /\ TaskStatusResponse'.task_id = t
                    /\ \A f \in DOMAIN Rec(t) \ {"request"} :
                          TaskStatusResponse'[f] = Rec(t)[f]]_vars

\* C22 witness: the response for task 1 reads completed, 100, with its
\* video_url and completed_at, obtained while the render of task 2 is
\* writing the progress of its frames.
C22_Witness ==
    /\ asked = 1
    /\ TaskStatusResponse.status_code = 200
    /\ TaskStatusResponse.status = "completed"
    /\ TaskStatusResponse.progress = 100
    /\ TaskStatusResponse.video_url # None
    /\ TaskStatusResponse.completed_at # None
    /\ unit[2].pc = "rendering" /\ unit[2].i = 1

\* Work units that still have a write to their record ahead of them.
WritesAhead ==
    {t \in Ids : unit[t].pc \in {"scheduled", "queued", "rendering", "returned",
                                 "raised", "completing", "failing"}}

\* C23: no work unit and no render writes to a record that
\* cleanup_old_tasks has deleted.  Whatever the interleaving of a sweep
\* with the running tasks, a work unit or render with a write ahead finds
\* its record in the store, no work unit ends with a KeyError, and no task
\* whose work unit is over is left reading pending or processing.
C23_NoWriteAfterPurge ==
    /\ \A t \in WritesAhead : t \in DOMAIN tasks
    /\ \A t \in Ids : unit[t].pc # "crashed"
    /\ \A t \in DOMAIN tasks :
          unit[t].pc \in {"done", "crashed"} => Rec(t).status \in Terminal

====
